---- MODULE Spec2Model ----
(***************************************************************************)
(* A model of protoc-gen-go-grpc (cmd/protoc-gen-go-grpc/grpc.go).         *)
(*                                                                         *)
(* The generator is a single pass over an immutable description tree that  *)
(* writes lines to one text sink g.  Every g.P(...) call of the source is  *)
(* one line record of the sink; the builders are operators that return the *)
(* lines they write, in the order they write them.  The bodies of the      *)
(* emitted Go functions are kept statement by statement, so that a second  *)
(* specification can run an emitted function against its collaborators.    *)
(***************************************************************************)
EXTENDS Integers, Sequences, FiniteSets, TLC

VARIABLES
    file,           \* the description tree: a sequence of services
    migrationMode,  \* the *migrationMode flag
    g,              \* the text sink: the sequence of lines written so far
    pc,             \* position of generateFileContent
    si,             \* index of the service the loop of line 63 is at
    fn,             \* run of an emitted function: the function invoked
    ip,             \* run: index in Body(fn) of the next statement
    env,            \* run: the collaborators' state at the call
    err,            \* run: the value of the local variable err
    trace,          \* run: the collaborator calls made so far
    ret,            \* run: what the function returned
    s,              \* naming: the identifiers given to unexport
    r               \* naming: the results of unexport

vars == <<file, migrationMode, g, pc, si, fn, ip, env, err, trace, ret, s, r>>

genVars == <<file, migrationMode, g, pc, si>>
runVars == <<fn, ip, env, err, trace, ret>>
nameVars == <<s, r>>

(***************************************************************************)
(* Bounds of the model.                                                    *)
(***************************************************************************)
MaxMethods == 2     \* methods in a file, over all its services
MaxRunMethods == 1  \* methods of the service whose emitted code is run
MaxLen == 2         \* length of the identifiers given to unexport

(***************************************************************************)
(* Identifiers are sequences of bytes; a byte is a one-character string.   *)
(* Protocol-buffer and Go names of this program are ASCII.                 *)
(***************************************************************************)
UpperChars == {"A", "B", "G"}
LowerChars == {"a", "b", "g"}
DigitChars == {"1"}

\* strings.ToLower on one ASCII byte.
ToLowerByte(c) ==
    CASE c = "A" -> "a"
      [] c = "B" -> "b"
      [] c = "G" -> "g"
      [] OTHER -> c

\* c - ('a' - 'A') for an ASCII lower-case byte, as GoCamelCase does.
ToUpperByte(c) ==
    CASE c = "a" -> "A"
      [] c = "b" -> "B"
      [] c = "g" -> "G"
      [] OTHER -> c

\* strings.ToLower on an ASCII string.
ToLower(str) == [i \in 1..Len(str) |-> ToLowerByte(str[i])]

\* A mutant of unexport: lower-cases the whole identifier.
unexportLowerAll(str) == ToLower(str)

\* func unexport(s string) string { return strings.ToLower(s[:1]) + s[1:] }
unexport(str) == ToLower(SubSeq(str, 1, 1)) \o SubSeq(str, 2, Len(str))

\* The byte sequence as a string of the generated text.
RECURSIVE Str(_)
Str(str) == IF str = <<>> THEN "" ELSE Head(str) \o Str(Tail(str))

(***************************************************************************)
(* protogen's GoName of a declared name (strs.GoCamelCase): an initial '_' *)
(* becomes 'X', a '_' before a lower-case letter is dropped and the letter *)
(* upper-cased, a lower-case letter that starts a word is upper-cased.     *)
(***************************************************************************)
RECURSIVE CamelFrom(_, _)
CamelFrom(str, i) ==
    IF i > Len(str) THEN <<>>
    ELSE LET c == str[i] IN
         IF c = "_" /\ i = 1 THEN <<"X">> \o CamelFrom(str, i + 1)
         ELSE IF c = "_" /\ i + 1 <= Len(str) /\ str[i + 1] \in LowerChars
              THEN CamelFrom(str, i + 1)
         ELSE IF c \in DigitChars THEN <<c>> \o CamelFrom(str, i + 1)
         ELSE LET RECURSIVE RunEnd(_)
                  RunEnd(j) == IF j + 1 <= Len(str) /\ str[j + 1] \in LowerChars
                               THEN RunEnd(j + 1) ELSE j
                  e == RunEnd(i)
              IN <<ToUpperByte(c)>> \o SubSeq(str, i + 1, e) \o CamelFrom(str, e + 1)

GoCamelCase(str) == CamelFrom(str, 1)

(***************************************************************************)
(* The description tree.  A method has its declared name (Desc.Name), its  *)
(* two streaming flags and its deprecated option; a service has its        *)
(* declared name, its deprecated option and its methods in declaration     *)
(* order.                                                                  *)
(***************************************************************************)
\* The declared names of the methods of a service, by position: names are
\* distinct within a service.
MethodNames == <<<<"a", "_", "b">>, <<"A", "b">>, <<"B", "1">>>>

\* The services a file may declare, in this order.
ServiceHeads == <<[Name |-> <<"G">>, Deprecated |-> FALSE],
                  [Name |-> <<"b", "_", "a">>, Deprecated |-> TRUE]>>

\* The i-th method of a service, of the given shape.
MethodSet(i) ==
    [Name : {MethodNames[i]}, ClientStreaming : BOOLEAN,
     ServerStreaming : BOOLEAN, Deprecated : BOOLEAN,
     Input : {"Req"}, Output : {"Rep"}]

\* method.GoName, service.GoName
GoName(x) == Str(GoCamelCase(x.Name))
\* method.Desc.Name()
DescName(x) == Str(x.Name)
\* service.Desc.FullName(): the package, a dot, the declared name
FullName(svc) == "pkg." \o Str(svc.Name)
\* file.Desc.Path()
FilePath == "pkg/file.proto"

IsStreamingClient(m) == m.ClientStreaming
IsStreamingServer(m) == m.ServerStreaming
IsUnary(m) == ~IsStreamingClient(m) /\ ~IsStreamingServer(m)

\* The sequences of n methods of a service.
MethodSeqs(n) ==
    IF n > Len(MethodNames) THEN {}
    ELSE {ms \in [1..n -> UNION {MethodSet(i) : i \in 1..n}] :
             \A i \in 1..n : ms[i] \in MethodSet(i)}

\* The heads of a file of n services.
HeadSeqs(n) == {SubSeq(ServiceHeads, 1, n)}

RECURSIVE SumTo(_, _)
SumTo(c, i) == IF i = 0 THEN 0 ELSE c[i] + SumTo(c, i - 1)

\* How many methods each of n services has, at most budget in all.
Counts(n, budget) == {c \in [1..n -> 0..budget] : SumTo(c, n) <= budget}

\* The method lists of the first i services, service j having c[j] methods.
RECURSIVE MethodLists(_, _)
MethodLists(c, i) ==
    IF i = 0 THEN {<<>>}
    ELSE LET before == MethodLists(c, i - 1)
             here == MethodSeqs(c[i])
         IN {Append(p, ms) : p \in before, ms \in here}

\* The files of n services with at most budget methods in all.
FilesWith(n, budget) ==
    UNION {UNION {{[i \in 1..n |->
                      [Name |-> hs[i].Name, Deprecated |-> hs[i].Deprecated,
                       Methods |-> ml[i]]] : ml \in MethodLists(c, n)} :
                  c \in Counts(n, budget)} :
           hs \in HeadSeqs(n)}

Files == UNION {FilesWith(n, MaxMethods) : n \in 0..Len(ServiceHeads)}

\* The files whose emitted code is run: one service, at least one method.
RunFiles == {f \in FilesWith(1, MaxRunMethods) : Len(f[1].Methods) >= 1}

(***************************************************************************)
(* The text sink.  A line is what one g.P call writes:                     *)
(*   art   the part of the output the line belongs to                      *)
(*   svc   the Go name of the service the builder was called with          *)
(*   k     the kind of line                                                *)
(*   o     the declaration (type, function) the line is inside or opens    *)
(*   n     the name the line declares or refers to                         *)
(*   args  parameter list of a signature, operands of a statement          *)
(*   rets  result list of a signature                                      *)
(*   a     the remaining text of the line                                  *)
(***************************************************************************)
Ln(k, o, n, a) ==
    [art |-> "", svc |-> "", k |-> k, o |-> o, n |-> n,
     args |-> <<>>, rets |-> <<>>, a |-> a]

LnArgs(k, o, n, args, a) == [Ln(k, o, n, a) EXCEPT !.args = args]

\* A line that holds a signature: name(args) rets
SigLn(k, o, sig) ==
    [Ln(k, o, sig.name, "") EXCEPT !.args = sig.args, !.rets = sig.rets]

Blank == Ln("blank", "", "", "")
Close(o) == Ln("close", o, "", "}")
Comment(o, text) == Ln("comment", o, "", text)

Tag(lines, art, svc) ==
    [i \in 1..Len(lines) |-> [lines[i] EXCEPT !.art = art, !.svc = svc]]

If(c, lines) == IF c THEN lines ELSE <<>>

RECURSIVE Flatten(_)
Flatten(ss) == IF ss = <<>> THEN <<>> ELSE Head(ss) \o Flatten(Tail(ss))

\* const deprecationComment = "// Deprecated: Do not use."
deprecationComment == "// Deprecated: Do not use."

\* func clientSignature (lines 119-132)
clientSignature(service, method) ==
    [name |-> GoName(method),
     args |-> <<"ctx context.Context">>
              \o If(~IsStreamingClient(method), <<"in *" \o method.Input>>)
              \o <<"opts ...grpc.CallOption">>,
     rets |-> <<IF IsUnary(method) THEN "*" \o method.Output
                ELSE GoName(service) \o "_" \o GoName(method) \o "Client",
                "error">>]

\* func methodSignature (lines 358-372)
methodSignature(service, method) ==
    [name |-> GoName(method),
     args |-> If(IsUnary(method), <<"context.Context">>)
              \o If(~IsStreamingClient(method), <<"*" \o method.Input>>)
              \o If(~IsUnary(method),
                    <<GoName(service) \o "_" \o GoName(method) \o "Server">>),
     rets |-> IF IsUnary(method) THEN <<"*" \o method.Output, "error">>
              ELSE <<"error">>]

\* func handlerSignature (lines 374-388): the same lists after "func"
handlerSignature(service, method) ==
    [name |-> GoName(method),
     args |-> If(IsUnary(method), <<"context.Context">>)
              \o If(~IsStreamingClient(method), <<"*" \o method.Input>>)
              \o If(~IsUnary(method),
                    <<GoName(service) \o "_" \o GoName(method) \o "Server">>),
     rets |-> IF IsUnary(method) THEN <<"*" \o method.Output, "error">>
              ELSE <<"error">>]

\* The bytes of method.GoName and service.GoName, as unexport takes them.
GoNameBytes(x) == GoCamelCase(x.Name)

\* The fully-qualified method path of line 136:
\* fmt.Sprintf("/%s/%s", service.Desc.FullName(), method.Desc.Name())
sname(service, method) == "/" \o FullName(service) \o "/" \o DescName(method)

\* streamDescName of line 142
streamDescName(service, method) ==
    Str(unexport(GoNameBytes(service))) \o GoName(method) \o "StreamDesc"

\* streamType of line 163, the client stream struct
clientStreamType(service, method) ==
    Str(unexport(GoNameBytes(service))) \o GoName(method) \o "Client"

\* The client stream interface of line 181
clientStreamIface(service, method) ==
    GoName(service) \o "_" \o GoName(method) \o "Client"

\* The receiver type of line 153: unexport(service.GoName) + "Client"
clientImplType(service) == Str(unexport(GoNameBytes(service))) \o "Client"

\* A statement of an emitted function body f: operation n on a with args.
Stmt(f, n, args, a) == LnArgs("stmt", f, n, args, a)

\* The line that opens a function: func (x *recv) name(args) rets {
Func(recv, sig) ==
    [SigLn("func", recv \o "." \o sig.name, sig) EXCEPT !.a = recv]

FuncKey(recv, name) == recv \o "." \o name

\* A mutant of genClientMethod's streaming call: the error of sending the
\* single request is not looked at.
clientStreamCallNoSendCheck(service, method) ==
    LET f == FuncKey(clientImplType(service), GoName(method)) IN
    <<Func(clientImplType(service), clientSignature(service, method)),
      Stmt(f, "call", <<streamDescName(service, method), sname(service, method)>>,
           "NewStream"),
      Stmt(f, "if_err_return_nil_err", <<>>, ""),
      Stmt(f, "wrap", <<clientStreamType(service, method)>>, "x")>>
    \o If(~IsStreamingClient(method),
          <<Stmt(f, "call", <<>>, "SendMsg"),
            Stmt(f, "call_if_err_return_nil_err", <<>>, "CloseSend")>>)
    \o <<Stmt(f, "return_ok", <<>>, "x"), Close(f), Blank>>

\* genClientMethod, lines 163-174: the call of a streaming method
clientStreamCall(service, method) ==
    LET f == FuncKey(clientImplType(service), GoName(method)) IN
    <<Func(clientImplType(service), clientSignature(service, method)),
      \* stream, err := c.cc.NewStream(ctx, streamDescName, "sname", opts...)
      Stmt(f, "call", <<streamDescName(service, method), sname(service, method)>>,
           "NewStream"),
      Stmt(f, "if_err_return_nil_err", <<>>, ""),
      \* x := &streamType{stream}
      Stmt(f, "wrap", <<clientStreamType(service, method)>>, "x")>>
    \o If(~IsStreamingClient(method),
          <<Stmt(f, "call_if_err_return_nil_err", <<>>, "SendMsg"),
            Stmt(f, "call_if_err_return_nil_err", <<>>, "CloseSend")>>)
    \o <<Stmt(f, "return_ok", <<>>, "x"), Close(f), Blank>>

\* genClientMethod, lines 153-162: the call of a unary method
clientUnaryCall(service, method) ==
    LET f == FuncKey(clientImplType(service), GoName(method)) IN
    <<Func(clientImplType(service), clientSignature(service, method)),
      Stmt(f, "new", <<>>, "out"),
      \* err := c.cc.Invoke(ctx, "sname", in, out, opts...)
      Stmt(f, "call", <<sname(service, method)>>, "Invoke"),
      Stmt(f, "if_err_return_nil_err", <<>>, ""),
      Stmt(f, "return_ok", <<>>, "out"),
      Close(f), Blank>>

\* genClientMethod, lines 176-222: stream auxiliary types and methods
clientStreamTypes(service, method) ==
    LET genSend == IsStreamingClient(method)
        genRecv == IsStreamingServer(method)
        genCloseAndRecv == ~IsStreamingServer(method)
        iface == clientStreamIface(service, method)
        streamType == clientStreamType(service, method)
        sendSig == [name |-> "Send", args |-> <<"*" \o method.Input>>,
                    rets |-> <<"error">>]
        recvSig == [name |-> "Recv", args |-> <<>>,
                    rets |-> <<"*" \o method.Output, "error">>]
        closeSig == [name |-> "CloseAndRecv", args |-> <<>>,
                     rets |-> <<"*" \o method.Output, "error">>]
        fSend == FuncKey(streamType, "Send")
        fRecv == FuncKey(streamType, "Recv")
        fClose == FuncKey(streamType, "CloseAndRecv")
    IN <<Ln("type_interface", iface, iface, "")>>
       \o If(genSend, <<SigLn("iface_method", iface, sendSig)>>)
       \o If(genRecv, <<SigLn("iface_method", iface, recvSig)>>)
       \o If(genCloseAndRecv, <<SigLn("iface_method", iface, closeSig)>>)
       \o <<Ln("embed", iface, "grpc.ClientStream", ""), Close(iface), Blank,
            Ln("type_struct", streamType, streamType, ""),
            Ln("embed", streamType, "grpc.ClientStream", ""),
            Close(streamType), Blank>>
       \o If(genSend,
             <<Func(streamType, sendSig),
               \* return x.ClientStream.SendMsg(m)
               Stmt(fSend, "return_call", <<>>, "SendMsg"),
               Close(fSend), Blank>>)
       \o If(genRecv,
             <<Func(streamType, recvSig),
               Stmt(fRecv, "new", <<>>, "m"),
               Stmt(fRecv, "call_if_err_return_nil_err", <<>>, "RecvMsg"),
               Stmt(fRecv, "return_ok", <<>>, "m"),
               Close(fRecv), Blank>>)
       \o If(genCloseAndRecv,
             <<Func(streamType, closeSig),
               Stmt(fClose, "call_if_err_return_nil_err", <<>>, "CloseSend"),
               Stmt(fClose, "new", <<>>, "m"),
               Stmt(fClose, "call_if_err_return_nil_err", <<>>, "RecvMsg"),
               Stmt(fClose, "return_ok", <<>>, "m"),
               Close(fClose), Blank>>)

\* genClientMethod, lines 138-151: the stream descriptor variable
clientStreamDesc(service, method) ==
    LET sd == streamDescName(service, method) IN
    If(method.Deprecated, <<Comment(sd, deprecationComment)>>)
    \o <<Ln("var", sd, sd, "grpc.StreamDesc"),
         \* strconv.Quote(string(method.Desc.Name()))
         Ln("field", sd, "StreamName", DescName(method))>>
    \o If(IsStreamingServer(method), <<Ln("field", sd, "ServerStreams", "true")>>)
    \o If(IsStreamingClient(method), <<Ln("field", sd, "ClientStreams", "true")>>)
    \o <<Close(sd)>>

\* func genClientMethod (lines 134-223)
genClientMethod(service, method) ==
    Tag(clientStreamDesc(service, method), "client_stream_desc", GoName(service))
    \o IF IsUnary(method)
       THEN Tag(clientUnaryCall(service, method), "client_method", GoName(service))
       ELSE Tag(clientStreamCall(service, method), "client_method", GoName(service))
            \o Tag(clientStreamTypes(service, method), "client_stream_type",
                   GoName(service))

\* The bytes of "Client", appended to service.GoName at line 74.
ClientBytes == <<"C", "l", "i", "e", "n", "t">>

\* func genClient (lines 70-117)
genClient(mm, service) ==
    IF mm THEN <<>>
    ELSE
    LET clientName == GoName(service) \o "Client"
        implName == Str(unexport(GoNameBytes(service) \o ClientBytes))
        sv == GoName(service)
        newSig == [name |-> "New" \o clientName,
                   args |-> <<"cc grpc.ClientConnInterface">>,
                   rets |-> <<clientName>>]
    IN Tag(<<Comment(clientName, "// is the client API for service."),
             Comment(clientName, "//"),
             Comment(clientName, "// For semantics around ctx use and closing/ending streaming RPCs.")>>
           \o If(service.Deprecated,
                 <<Comment(clientName, "//"), Comment(clientName, deprecationComment)>>)
           \o <<Ln("type_interface", clientName, clientName, "")>>
           \o Flatten([i \in 1..Len(service.Methods) |->
                  If(service.Methods[i].Deprecated,
                     <<Comment(clientName, deprecationComment)>>)
                  \o <<SigLn("iface_method", clientName,
                             clientSignature(service, service.Methods[i]))>>])
           \o <<Close(clientName), Blank>>,
           "client_interface", sv)
       \o Tag(<<Ln("type_struct", implName, implName, ""),
                Ln("field", implName, "cc", "grpc.ClientConnInterface"),
                Close(implName), Blank>>,
              "client_struct", sv)
       \o Tag(If(service.Deprecated, <<Comment("New" \o clientName, deprecationComment)>>)
              \o <<[SigLn("func", "New" \o clientName, newSig) EXCEPT !.a = ""],
                   \* return &unexport(clientName){cc}
                   Stmt("New" \o clientName, "return_ok", <<implName>>, "&"),
                   Close("New" \o clientName), Blank>>,
              "client_constructor", sv)
       \o Flatten([i \in 1..Len(service.Methods) |->
                      genClientMethod(service, service.Methods[i])])

(***************************************************************************)
(* The server side.                                                        *)
(***************************************************************************)
\* serviceType of lines 227 and 335
serviceType(service) == GoName(service) \o "Service"

\* The name of the adapter function of line 408: unexport(method.GoName)
adapterName(method) == Str(unexport(GoNameBytes(method)))

\* streamType of lines 434 and 455, the server stream struct
serverStreamType(service, method) ==
    Str(unexport(GoNameBytes(service))) \o GoName(method) \o "Server"

\* The server stream interface of line 461
serverStreamIface(service, method) ==
    GoName(service) \o "_" \o GoName(method) \o "Server"

\* func unaryHandlerSignature (lines 390-393)
unaryHandlerSignature ==
    [args |-> <<"_ interface{}", "ctx context.Context",
                "dec func(interface{}) error",
                "interceptor grpc.UnaryServerInterceptor">>,
     rets |-> <<"interface{}", "error">>]

\* func streamHandlerSignature (lines 395-397)
streamHandlerSignature ==
    [args |-> <<"_ interface{}", "stream grpc.ServerStream">>,
     rets |-> <<"error">>]

\* The FullMethod string of line 426:
\* fmt.Sprintf("/%s/%s", service.Desc.FullName(), method.GoName)
fullMethod(service, method) == "/" \o FullName(service) \o "/" \o GoName(method)

\* func genHandlerBody (lines 418-444)
genHandlerBody(service, method) ==
    LET f == FuncKey(serviceType(service), adapterName(method))
        streamType == serverStreamType(service, method)
    IN IF IsUnary(method)
       THEN <<Stmt(f, "new", <<>>, "in"),
              \* if err := dec(in); err != nil { return nil, err }
              Stmt(f, "call_if_err_return_nil_err", <<>>, "dec"),
              \* if interceptor == nil { return s.M(ctx, in) }
              Stmt(f, "if_interceptor_nil_return_call", <<GoName(method)>>, "handler"),
              Stmt(f, "info_open", <<>>, "grpc.UnaryServerInfo"),
              Stmt(f, "info_field", <<>>, "Server"),
              Stmt(f, "info_field", <<fullMethod(service, method)>>, "FullMethod"),
              Stmt(f, "info_close", <<>>, ""),
              Stmt(f, "closure_open", <<>>, "handler"),
              Stmt(f, "closure_return_call", <<GoName(method)>>, "handler"),
              Stmt(f, "closure_close", <<>>, ""),
              \* return interceptor(ctx, in, info, handler)
              Stmt(f, "return_call", <<>>, "interceptor")>>
       ELSE IF ~IsStreamingClient(method)
       THEN \* Server-streaming
            <<Stmt(f, "new", <<>>, "m"),
              \* if err := stream.RecvMsg(m); err != nil { return err }
              Stmt(f, "call_if_err_return_err", <<>>, "RecvMsg"),
              \* return s.M(m, &streamType{stream})
              Stmt(f, "return_call", <<GoName(method), streamType>>, "handler")>>
       ELSE \* Bidi-streaming
            <<Stmt(f, "return_call", <<GoName(method), streamType>>, "handler")>>

\* The three lines 410-412 of genMethodHandler.
nilCheck(service, method) ==
    LET f == FuncKey(serviceType(service), adapterName(method)) IN
    <<\* if s.M == nil {
      Stmt(f, "if_field_nil", <<>>, GoName(method)),
      \* return nil, status.Errorf(codes.Unimplemented, "method M not implemented")
      Stmt(f, "return_unimplemented", If(IsUnary(method), <<"nil">>),
           "method " \o GoName(method) \o " not implemented"),
      Stmt(f, "end_if", <<>>, "")>>

\* A mutant of genMethodHandler: the nil check comes after the body's first
\* statements instead of before them.
genMethodHandlerLateCheck(service, method) ==
    LET signature == IF IsUnary(method) THEN unaryHandlerSignature
                     ELSE streamHandlerSignature
        f == FuncKey(serviceType(service), adapterName(method))
        body == genHandlerBody(service, method)
        cut == IF Len(body) >= 2 THEN 2 ELSE 0
    IN <<Func(serviceType(service),
              [name |-> adapterName(method), args |-> signature.args,
               rets |-> signature.rets])>>
       \o SubSeq(body, 1, cut)
       \o nilCheck(service, method)
       \o SubSeq(body, cut + 1, Len(body))
       \o <<Close(f)>>

\* func genMethodHandler (lines 399-416)
genMethodHandler(service, method) ==
    LET signature == IF IsUnary(method) THEN unaryHandlerSignature
                     ELSE streamHandlerSignature
        f == FuncKey(serviceType(service), adapterName(method))
    IN <<Func(serviceType(service),
              [name |-> adapterName(method), args |-> signature.args,
               rets |-> signature.rets])>>
       \o nilCheck(service, method)
       \o genHandlerBody(service, method)
       \o <<Close(f)>>

\* A mutant of genServerStreamTypes: the types are emitted in both modes.
genServerStreamTypesBothModes(mm, service, method) ==
    IF IsUnary(method) THEN <<>>
    ELSE LET iface == serverStreamIface(service, method)
             streamType == serverStreamType(service, method)
         IN <<Ln("type_interface", iface, iface, ""),
              Ln("embed", iface, "grpc.ServerStream", ""), Close(iface), Blank,
              Ln("type_struct", streamType, streamType, ""),
              Ln("embed", streamType, "grpc.ServerStream", ""),
              Close(streamType), Blank>>

\* A mutant of genServerStreamTypes: the struct of a method that is not
\* server-streaming is not declared.
genServerStreamTypesNoStruct(mm, service, method) ==
    IF mm \/ IsUnary(method) THEN <<>>
    ELSE LET iface == serverStreamIface(service, method)
             streamType == serverStreamType(service, method)
         IN <<Ln("type_interface", iface, iface, ""),
              Ln("embed", iface, "grpc.ServerStream", ""), Close(iface), Blank>>
            \o If(IsStreamingServer(method),
                  <<Ln("type_struct", streamType, streamType, ""),
                    Ln("embed", streamType, "grpc.ServerStream", ""),
                    Close(streamType), Blank>>)

\* A mutant of genServerStreamTypes: Send is emitted for every shape.
genServerStreamTypesAlwaysSend(mm, service, method) ==
    IF mm \/ IsUnary(method) THEN <<>>
    ELSE LET iface == serverStreamIface(service, method)
             streamType == serverStreamType(service, method)
         IN <<Ln("type_interface", iface, iface, ""),
              SigLn("iface_method", iface,
                    [name |-> "Send", args |-> <<"*" \o method.Output>>,
                     rets |-> <<"error">>]),
              Ln("embed", iface, "grpc.ServerStream", ""), Close(iface), Blank,
              Ln("type_struct", streamType, streamType, ""),
              Ln("embed", streamType, "grpc.ServerStream", ""),
              Close(streamType), Blank>>

\* func genServerStreamTypes (lines 446-502)
genServerStreamTypes(mm, service, method) ==
    IF mm THEN <<>>
    ELSE IF IsUnary(method) THEN <<>>
    ELSE
    LET streamType == serverStreamType(service, method)
        iface == serverStreamIface(service, method)
        genSend == IsStreamingServer(method)
        genSendAndClose == ~IsStreamingServer(method)
        genRecv == IsStreamingClient(method)
        sendSig == [name |-> "Send", args |-> <<"*" \o method.Output>>,
                    rets |-> <<"error">>]
        sendCloseSig == [name |-> "SendAndClose", args |-> <<"*" \o method.Output>>,
                         rets |-> <<"error">>]
        recvSig == [name |-> "Recv", args |-> <<>>,
                    rets |-> <<"*" \o method.Input, "error">>]
        fSend == FuncKey(streamType, "Send")
        fSendClose == FuncKey(streamType, "SendAndClose")
        fRecv == FuncKey(streamType, "Recv")
    IN <<Ln("type_interface", iface, iface, "")>>
       \o If(genSend, <<SigLn("iface_method", iface, sendSig)>>)
       \o If(genSendAndClose, <<SigLn("iface_method", iface, sendCloseSig)>>)
       \o If(genRecv, <<SigLn("iface_method", iface, recvSig)>>)
       \o <<Ln("embed", iface, "grpc.ServerStream", ""), Close(iface), Blank,
            Ln("type_struct", streamType, streamType, ""),
            Ln("embed", streamType, "grpc.ServerStream", ""),
            Close(streamType), Blank>>
       \o If(genSend,
             <<Func(streamType, sendSig),
               Stmt(fSend, "return_call", <<>>, "SendMsg"),
               Close(fSend), Blank>>)
       \o If(genSendAndClose,
             <<Func(streamType, sendCloseSig),
               Stmt(fSendClose, "return_call", <<>>, "SendMsg"),
               Close(fSendClose), Blank>>)
       \o If(genRecv,
             <<Func(streamType, recvSig),
               Stmt(fRecv, "new", <<>>, "m"),
               Stmt(fRecv, "call_if_err_return_nil_err", <<>>, "RecvMsg"),
               Stmt(fRecv, "return_ok", <<>>, "m"),
               Close(fRecv), Blank>>)

\* A mutant of inUnaryList: a server-streaming method counts as unary.
inUnaryListIgnoresServer(method) == ~IsStreamingClient(method)

\* The test of lines 279 and 290: the method goes to the Methods list.
inUnaryList(method) == ~(IsStreamingClient(method) \/ IsStreamingServer(method))

\* func genRegisterFunction (lines 266-312)
genRegisterFunction(service) ==
    LET f == "Register" \o GoName(service) \o "Service"
        sig == [name |-> f,
                args |-> <<"s grpc.ServiceRegistrar",
                           "srv *" \o GoName(service) \o "Service">>,
                rets |-> <<>>]
        ms == service.Methods
    IN <<Comment(f, "// registers a service implementation with a gRPC server.")>>
       \o If(service.Deprecated, <<Comment(f, "//"), Comment(f, deprecationComment)>>)
       \o <<[SigLn("func", f, sig) EXCEPT !.a = ""],
            Ln("sd_open", f, "sd", "grpc.ServiceDesc"),
            Ln("field", f, "ServiceName", FullName(service)),
            Ln("list_open", f, "Methods", "grpc.MethodDesc")>>
       \o Flatten([i \in 1..Len(ms) |->
              If(inUnaryList(ms[i]),
                 <<Ln("entry_open", f, "Methods", ""),
                   Ln("field", f, "MethodName", DescName(ms[i])),
                   Ln("field", f, "Handler", adapterName(ms[i])),
                   Ln("entry_close", f, "Methods", "")>>)])
       \o <<Ln("list_close", f, "Methods", ""),
            Ln("list_open", f, "Streams", "grpc.StreamDesc")>>
       \o Flatten([i \in 1..Len(ms) |->
              If(~inUnaryList(ms[i]),
                 <<Ln("entry_open", f, "Streams", ""),
                   Ln("field", f, "StreamName", DescName(ms[i])),
                   Ln("field", f, "Handler", adapterName(ms[i]))>>
                 \o If(IsStreamingServer(ms[i]),
                       <<Ln("field", f, "ServerStreams", "true")>>)
                 \o If(IsStreamingClient(ms[i]),
                       <<Ln("field", f, "ClientStreams", "true")>>)
                 \o <<Ln("entry_close", f, "Streams", "")>>)])
       \o <<Ln("list_close", f, "Streams", ""),
            Ln("field", f, "Metadata", FilePath),
            Ln("sd_close", f, "sd", ""),
            Blank,
            \* s.RegisterService(&sd, nil)
            Stmt(f, "register", <<>>, "RegisterService"),
            Close(f), Blank>>

\* func genServiceConstructor (lines 314-331)
genServiceConstructor(service) ==
    LET f == "New" \o GoName(service) \o "Service"
        sig == [name |-> f, args |-> <<"s interface{}">>,
                rets |-> <<"*" \o GoName(service) \o "Service">>]
        ms == service.Methods
    IN <<Comment(f, "// creates a new Service containing the"),
         Comment(f, "// implemented methods of the service in s.  Any unimplemented"),
         Comment(f, "// methods will result in the gRPC server returning an UNIMPLEMENTED status to the client."),
         Comment(f, "// This includes situations where the method handler is misspelled or has the wrong"),
         Comment(f, "// signature.  For this reason, this function should be used with great care and"),
         Comment(f, "// is not recommended to be used by most users."),
         [SigLn("func", f, sig) EXCEPT !.a = ""],
         Stmt(f, "new", <<>>, "ns")>>
       \o Flatten([i \in 1..Len(ms) |->
              <<\* if h, ok := s.(interface { methodSignature }); ok {
                [SigLn("if_implements", f, methodSignature(service, ms[i]))
                    EXCEPT !.a = "h"],
                \* ns.M = h.M
                Stmt(f, "assign_field", <<>>, GoName(ms[i])),
                Stmt(f, "end_if", <<>>, "")>>])
       \o <<Stmt(f, "return_ok", <<>>, "ns"), Close(f), Blank>>

\* genService, lines 226-247: the server struct
serverStruct(service) ==
    LET st == serviceType(service)
        ms == service.Methods
    IN <<Comment(st, "// is the service API for service."),
         Comment(st, "// Fields should be assigned to their respective handler implementations only before"),
         Comment(st, "// Register is called.  Any unassigned fields will result in the"),
         Comment(st, "// handler for that method returning an Unimplemented error.")>>
       \o If(service.Deprecated, <<Comment(st, "//"), Comment(st, deprecationComment)>>)
       \o <<Ln("type_struct", st, st, "")>>
       \o Flatten([i \in 1..Len(ms) |->
              If(ms[i].Deprecated, <<Comment(st, deprecationComment)>>)
              \o <<SigLn("field_func", st, handlerSignature(service, ms[i]))>>])
       \o <<Close(st), Blank>>

\* A mutant of genService: the constructor helper is written before the
\* registration function.
genServiceConstructorFirst(mm, service) ==
    LET sv == GoName(service)
        ms == service.Methods
    IN Tag(serverStruct(service), "server_struct", sv)
       \o Tag(Flatten([i \in 1..Len(ms) |-> genMethodHandler(service, ms[i])]),
              "adapter", sv)
       \o Tag(Flatten([i \in 1..Len(ms) |-> genServerStreamTypes(mm, service, ms[i])]),
              "server_stream_type", sv)
       \o Tag(genServiceConstructor(service), "constructor_helper", sv)
       \o Tag(genRegisterFunction(service), "registration", sv)

\* func genService (lines 225-264)
genService(mm, service) ==
    LET sv == GoName(service)
        ms == service.Methods
    IN Tag(serverStruct(service), "server_struct", sv)
       \* Method handler implementations.
       \o Tag(Flatten([i \in 1..Len(ms) |-> genMethodHandler(service, ms[i])]),
              "adapter", sv)
       \* Stream interfaces and implementations.
       \o Tag(Flatten([i \in 1..Len(ms) |-> genServerStreamTypes(mm, service, ms[i])]),
              "server_stream_type", sv)
       \* Service registration.
       \o Tag(genRegisterFunction(service), "registration", sv)
       \* Short-cut service constructor.
       \o Tag(genServiceConstructor(service), "constructor_helper", sv)

\* A mutant of genUnstableServiceInterface: the notice of a deprecated method
\* is left out.
genUnstableServiceInterfaceNoNotice(service) ==
    LET ut == "Unstable" \o serviceType(service)
        ms == service.Methods
    IN Tag(<<Ln("type_interface", ut, ut, "")>>
           \o Flatten([i \in 1..Len(ms) |->
                  <<SigLn("iface_method", ut, methodSignature(service, ms[i]))>>])
           \o <<Close(ut), Blank>>,
           "unstable_interface", GoName(service))

\* func genUnstableServiceInterface (lines 333-356)
genUnstableServiceInterface(service) ==
    LET ut == "Unstable" \o serviceType(service)
        ms == service.Methods
    IN Tag(<<Comment(ut, "// is the service API for service."),
             Comment(ut, "// New methods may be added to this interface if they are added to the service"),
             Comment(ut, "// definition, which is not a backward-compatible change.  For this reason, "),
             Comment(ut, "// use of this type is not recommended.")>>
           \o If(service.Deprecated, <<Comment(ut, "//"), Comment(ut, deprecationComment)>>)
           \o <<Ln("type_interface", ut, ut, "")>>
           \o Flatten([i \in 1..Len(ms) |->
                  If(ms[i].Deprecated, <<Comment(ut, deprecationComment)>>)
                  \o <<SigLn("iface_method", ut, methodSignature(service, ms[i]))>>])
           \o <<Close(ut), Blank>>,
           "unstable_interface", GoName(service))

\* generateFileContent, lines 59-62: what precedes the services
preamble ==
    Tag(<<Comment("", "// This is a compile-time assertion to ensure that this generated file"),
          Comment("", "// is compatible with the grpc package it is being compiled against."),
          Ln("const", "_", "_", "grpc.SupportPackageIsVersion7"),
          Blank>>,
        "preamble", "")

\* generateFileContent, lines 64-66: the three builders of one service
serviceOutput(mm, service) ==
    genClient(mm, service)
    \o genService(mm, service)
    \o genUnstableServiceInterface(service)

\* func generateFileContent (lines 54-68), as the text it leaves in the sink
generateFileContent(mm, f) ==
    IF Len(f) = 0 THEN <<>>
    ELSE preamble \o Flatten([i \in 1..Len(f) |-> serviceOutput(mm, f[i])])

(***************************************************************************)
(* The generation pass, one builder call at a time.                        *)
(***************************************************************************)
NoRun ==
    /\ fn = ""
    /\ ip = 0
    /\ env = [handlerNil |-> FALSE, interceptorNil |-> FALSE]
    /\ err = "nil"
    /\ trace = <<>>
    /\ ret = [done |-> FALSE, val |-> "", err |-> ""]

NoNaming ==
    /\ s = <<>>
    /\ r = <<>>

Init ==
    /\ file \in Files
    /\ migrationMode \in BOOLEAN
    /\ g = <<>>
    /\ pc = "start"
    /\ si = 0
    /\ NoRun
    /\ NoNaming

\* generateFileContent, lines 55-57: a file without services writes nothing
NoServices ==
    /\ pc = "start"
    /\ Len(file) = 0
    /\ pc' = "done"
    /\ UNCHANGED <<file, migrationMode, g, si>>
    /\ UNCHANGED runVars /\ UNCHANGED nameVars

\* generateFileContent, lines 59-63: the preamble, then the first service
Preamble ==
    /\ pc = "start"
    /\ Len(file) > 0
    /\ g' = g \o preamble
    /\ si' = 1
    /\ pc' = "genClient"
    /\ UNCHANGED <<file, migrationMode>>
    /\ UNCHANGED runVars /\ UNCHANGED nameVars

\* line 64: genClient(gen, file, g, service)
GenClient ==
    /\ pc = "genClient"
    /\ g' = g \o genClient(migrationMode, file[si])
    /\ pc' = "genService"
    /\ UNCHANGED <<file, migrationMode, si>>
    /\ UNCHANGED runVars /\ UNCHANGED nameVars

\* line 65: genService(gen, file, g, service)
GenService ==
    /\ pc = "genService"
    /\ g' = g \o genService(migrationMode, file[si])
    /\ pc' = "genUnstableServiceInterface"
    /\ UNCHANGED <<file, migrationMode, si>>
    /\ UNCHANGED runVars /\ UNCHANGED nameVars

\* line 66: genUnstableServiceInterface(gen, file, g, service), and the
\* loop of line 63 going to the next service or ending
GenUnstableServiceInterface ==
    /\ pc = "genUnstableServiceInterface"
    /\ g' = g \o genUnstableServiceInterface(file[si])
    /\ IF si < Len(file)
       THEN si' = si + 1 /\ pc' = "genClient"
       ELSE si' = si /\ pc' = "done"
    /\ UNCHANGED <<file, migrationMode>>
    /\ UNCHANGED runVars /\ UNCHANGED nameVars

Next ==
    \/ NoServices
    \/ Preamble
    \/ GenClient
    \/ GenService
    \/ GenUnstableServiceInterface

Spec == Init /\ [][Next]_vars

(***************************************************************************)
(* A run of one emitted function.  The statements of the function are the  *)
(* "stmt" lines the generator wrote for it; the collaborators (the         *)
(* connection, the stream, the decode callback, the interceptor and the    *)
(* handler) answer each call with success or with an error of their own.   *)
(***************************************************************************)
\* The statements of emitted function f, in the order they were written.
Body(f) == SelectSeq(g, LAMBDA l : l.k = "stmt" /\ l.o = f)

\* The line that opens emitted function f.
FuncLine(f) == CHOOSE l \in {g[i] : i \in 1..Len(g)} : l.k = "func" /\ l.o = f

RunnableArts == {"client_method", "client_stream_type", "adapter", "server_stream_type"}

\* The emitted functions that talk to a collaborator.
RunnableFuncs ==
    {g[i].o : i \in {j \in 1..Len(g) : g[j].k = "func" /\ g[j].art \in RunnableArts}}

\* The error a collaborator returns from a failing call.
ErrOf(prim) == "error of " \o prim

\* The value of a one-result function is "-"; a two-result function returns
\* "nil" beside an error.
NilResult(f) == IF Len(FuncLine(f).rets) = 2 THEN "nil" ELSE "-"

Running == fn # "" /\ ~ret.done /\ ip <= Len(Body(fn))
Cur == Body(fn)[ip]

Returned(val, e) == ret' = [done |-> TRUE, val |-> val, err |-> e]

InitRun ==
    /\ file \in RunFiles
    /\ migrationMode \in BOOLEAN
    /\ g = generateFileContent(migrationMode, file)
    /\ pc = "done"
    /\ si = Len(file)
    /\ NoRun
    /\ NoNaming

\* The runtime calls an emitted function.  Whether the handler field and
\* the interceptor are nil matters to the adapters only.
Invoke ==
    /\ fn = ""
    /\ \E f \in RunnableFuncs :
          /\ fn' = f
          /\ env' \in IF FuncLine(f).art = "adapter"
                      THEN [handlerNil : BOOLEAN, interceptorNil : BOOLEAN]
                      ELSE {[handlerNil |-> FALSE, interceptorNil |-> FALSE]}
    /\ ip' = 1
    /\ UNCHANGED <<err, trace, ret>>
    /\ UNCHANGED genVars /\ UNCHANGED nameVars

\* m := new(T), x := &streamType{stream}, the info literal, the handler
\* closure and a closing brace call no collaborator.
StepLocal ==
    /\ Running
    /\ Cur.n \in {"new", "wrap", "info_open", "info_field", "info_close",
                  "closure_open", "closure_return_call", "closure_close", "end_if"}
    /\ ip' = ip + 1
    /\ UNCHANGED <<fn, env, err, trace, ret>>
    /\ UNCHANGED genVars /\ UNCHANGED nameVars

\* err := c.cc.Invoke(...)   and   stream, err := c.cc.NewStream(...)
StepCall ==
    /\ Running
    /\ Cur.n = "call"
    /\ \E ok \in BOOLEAN :
          /\ trace' = Append(trace, [prim |-> Cur.a, ok |-> ok])
          /\ err' = IF ok THEN "nil" ELSE ErrOf(Cur.a)
    /\ ip' = ip + 1
    /\ UNCHANGED <<fn, env, ret>>
    /\ UNCHANGED genVars /\ UNCHANGED nameVars

\* if err != nil { return nil, err }
StepIfErrReturn ==
    /\ Running
    /\ Cur.n = "if_err_return_nil_err"
    /\ IF err # "nil"
       THEN Returned("nil", err) /\ ip' = ip
       ELSE ip' = ip + 1 /\ ret' = ret
    /\ UNCHANGED <<fn, env, err, trace>>
    /\ UNCHANGED genVars /\ UNCHANGED nameVars

\* if err := P(...); err != nil { return nil, err }   (or: { return err })
StepCallIfErrReturn ==
    /\ Running
    /\ Cur.n \in {"call_if_err_return_nil_err", "call_if_err_return_err"}
    /\ \E ok \in BOOLEAN :
          /\ trace' = Append(trace, [prim |-> Cur.a, ok |-> ok])
          /\ IF ok
             THEN ip' = ip + 1 /\ ret' = ret
             ELSE /\ ip' = ip
                  /\ Returned(IF Cur.n = "call_if_err_return_nil_err"
                              THEN "nil" ELSE "-", ErrOf(Cur.a))
    /\ UNCHANGED <<fn, env, err>>
    /\ UNCHANGED genVars /\ UNCHANGED nameVars

\* return out, nil   return x, nil   return m, nil
StepReturnOk ==
    /\ Running
    /\ Cur.n = "return_ok"
    /\ Returned(Cur.a, "nil")
    /\ UNCHANGED <<fn, ip, env, err, trace>>
    /\ UNCHANGED genVars /\ UNCHANGED nameVars

\* return P(...): the function returns what the callee returns
StepReturnCall ==
    /\ Running
    /\ Cur.n = "return_call"
    /\ \E ok \in BOOLEAN :
          /\ trace' = Append(trace, [prim |-> Cur.a, ok |-> ok])
          /\ Returned(IF Len(FuncLine(fn).rets) = 2 THEN "of " \o Cur.a ELSE "-",
                      IF ok THEN "nil" ELSE ErrOf(Cur.a))
    /\ UNCHANGED <<fn, ip, env, err>>
    /\ UNCHANGED genVars /\ UNCHANGED nameVars

\* if s.M == nil {  : into the block, or past its closing brace
StepIfFieldNil ==
    /\ Running
    /\ Cur.n = "if_field_nil"
    /\ IF env.handlerNil
       THEN ip' = ip + 1
       ELSE ip' = 1 + CHOOSE j \in ip..Len(Body(fn)) :
                         /\ Body(fn)[j].n = "end_if"
                         /\ \A k \in ip..(j - 1) : Body(fn)[k].n # "end_if"
    /\ UNCHANGED <<fn, env, err, trace, ret>>
    /\ UNCHANGED genVars /\ UNCHANGED nameVars

\* return nil, status.Errorf(codes.Unimplemented, "method M not implemented")
StepReturnUnimplemented ==
    /\ Running
    /\ Cur.n = "return_unimplemented"
    /\ Returned(IF Cur.args = <<"nil">> THEN "nil" ELSE "-",
                "Unimplemented: " \o Cur.a)
    /\ UNCHANGED <<fn, ip, env, err, trace>>
    /\ UNCHANGED genVars /\ UNCHANGED nameVars

\* if interceptor == nil { return s.M(ctx, in) }
StepIfInterceptorNil ==
    /\ Running
    /\ Cur.n = "if_interceptor_nil_return_call"
    /\ IF env.interceptorNil
       THEN \E ok \in BOOLEAN :
               /\ trace' = Append(trace, [prim |-> Cur.a, ok |-> ok])
               /\ Returned("of " \o Cur.a, IF ok THEN "nil" ELSE ErrOf(Cur.a))
               /\ ip' = ip
       ELSE ip' = ip + 1 /\ UNCHANGED <<trace, ret>>
    /\ UNCHANGED <<fn, env, err>>
    /\ UNCHANGED genVars /\ UNCHANGED nameVars

NextRun ==
    \/ Invoke
    \/ StepLocal
    \/ StepCall
    \/ StepIfErrReturn
    \/ StepCallIfErrReturn
    \/ StepReturnOk
    \/ StepReturnCall
    \/ StepIfFieldNil
    \/ StepReturnUnimplemented
    \/ StepIfInterceptorNil

SpecRun == InitRun /\ [][NextRun]_vars

(***************************************************************************)
(* unexport applied to identifiers.                                        *)
(***************************************************************************)
LetterChars == UpperChars \cup LowerChars

\* The bytes of the identifiers unexport is tried on.
IdentChars == {"A", "a", "B", "_", "1"}

\* Identifiers of length 1..MaxLen: a letter or '_', then letters, digits, '_'.
Idents ==
    {id \in UNION {[1..n -> IdentChars] : n \in 1..MaxLen} :
        id[1] \in LetterChars \cup {"_"}}

InitNaming ==
    /\ s \in Idents \X Idents
    /\ r = <<>>
    /\ file = <<>>
    /\ migrationMode = FALSE
    /\ g = <<>>
    /\ pc = "naming"
    /\ si = 0
    /\ NoRun

\* The two identifiers go through unexport.
Unexport ==
    /\ pc = "naming"
    /\ r = <<>>
    /\ r' = <<unexport(s[1]), unexport(s[2])>>
    /\ UNCHANGED s
    /\ UNCHANGED genVars /\ UNCHANGED runVars

NextNaming == Unexport

SpecNaming == InitNaming /\ [][NextNaming]_vars

(***************************************************************************)
(* Reading the generated text.                                             *)
(***************************************************************************)
Idx == 1..Len(g)
Done == pc = "done"

\* The (service, method) pairs of the file.
AllMethods ==
    UNION {{<<file[i], file[i].Methods[j]>> : j \in 1..Len(file[i].Methods)} :
           i \in 1..Len(file)}

\* The output declares a type of this kind and name.
Declares(k, name) == \E i \in Idx : g[i].k = k /\ g[i].n = name /\ g[i].o = name

\* The method names listed in interface type iface.
IfaceMethods(iface) ==
    {g[i].n : i \in {j \in Idx : g[j].k = "iface_method" /\ g[j].o = iface}}

\* The names of the functions emitted with receiver type recv.
FuncsOf(recv) ==
    {g[i].n : i \in {j \in Idx : g[j].k = "func" /\ g[j].a = recv}}

\* What the claim fixes for each shape.
ClientWrapperMethods(m) ==
    CASE ~m.ClientStreaming /\ m.ServerStreaming -> {"Recv"}
      [] m.ClientStreaming /\ ~m.ServerStreaming -> {"Send", "CloseAndRecv"}
      [] m.ClientStreaming /\ m.ServerStreaming -> {"Send", "Recv"}
      [] OTHER -> {}

ServerWrapperMethods(m) ==
    CASE ~m.ClientStreaming /\ m.ServerStreaming -> {"Send"}
      [] m.ClientStreaming /\ ~m.ServerStreaming -> {"Recv", "SendAndClose"}
      [] m.ClientStreaming /\ m.ServerStreaming -> {"Send", "Recv"}
      [] OTHER -> {}

\* C1: in full mode every non-unary method has a client and a server stream
\* wrapper type whose methods are exactly those its streaming flags fix
\* (ServerStreaming: client {Recv}, server {Send}; ClientStreaming: client
\* {Send, CloseAndRecv}, server {Recv, SendAndClose}; BidiStreaming: client
\* {Send, Recv}, server {Send, Recv}), on the interface and on the struct,
\* and a unary method has no stream wrapper type on either side.
C1_WrapperMethods ==
    (Done /\ ~migrationMode) =>
        \A p \in AllMethods :
            LET sv == p[1]
                m == p[2]
                ci == clientStreamIface(sv, m)
                cs == clientStreamType(sv, m)
                xi == serverStreamIface(sv, m)
                xs == serverStreamType(sv, m)
            IN IF ~m.ClientStreaming /\ ~m.ServerStreaming
               THEN /\ ~Declares("type_interface", ci) /\ ~Declares("type_struct", cs)
                    /\ ~Declares("type_interface", xi) /\ ~Declares("type_struct", xs)
                    /\ FuncsOf(cs) = {} /\ FuncsOf(xs) = {}
               ELSE /\ Declares("type_interface", ci) /\ Declares("type_struct", cs)
                    /\ Declares("type_interface", xi) /\ Declares("type_struct", xs)
                    /\ IfaceMethods(ci) = ClientWrapperMethods(m)
                    /\ FuncsOf(cs) = ClientWrapperMethods(m)
                    /\ IfaceMethods(xi) = ServerWrapperMethods(m)
                    /\ FuncsOf(xs) = ServerWrapperMethods(m)
                    /\ ("Recv" \in IfaceMethods(ci)) # ("CloseAndRecv" \in IfaceMethods(ci))
                    /\ ("Send" \in IfaceMethods(xi)) # ("SendAndClose" \in IfaceMethods(xi))

\* A full-mode pass that has written the wrappers of a client-streaming method.
C1_Witness ==
    /\ Done /\ ~migrationMode
    /\ \E p \in AllMethods :
          /\ p[2].ClientStreaming /\ ~p[2].ServerStreaming
          /\ "CloseAndRecv" \in IfaceMethods(clientStreamIface(p[1], p[2]))
          /\ "SendAndClose" \in FuncsOf(serverStreamType(p[1], p[2]))

ClientArts ==
    {"client_interface", "client_struct", "client_constructor",
     "client_method", "client_stream_desc", "client_stream_type"}

ServerArts ==
    {"server_struct", "adapter", "registration", "constructor_helper",
     "unstable_interface"}

ServerPart(lines) == SelectSeq(lines, LAMBDA l : l.art \in ServerArts)

\* C2: in migration mode the output holds no client-side line and no server
\* stream wrapper type, and its server struct, adapters, registration
\* function, constructor helper and unstable interface are line for line
\* those of full mode for the same file.
C2_Migration ==
    (Done /\ migrationMode) =>
        /\ \A i \in Idx : g[i].art \notin ClientArts \cup {"server_stream_type"}
        /\ ServerPart(g) = ServerPart(generateFileContent(FALSE, file))
        /\ \A p \in AllMethods :
              /\ ~Declares("type_interface", serverStreamIface(p[1], p[2]))
              /\ ~Declares("type_struct", serverStreamType(p[1], p[2]))
              /\ ~Declares("type_interface", clientStreamIface(p[1], p[2]))
              /\ ~Declares("type_struct", clientStreamType(p[1], p[2]))
        /\ \A i \in 1..Len(file) :
              /\ ~Declares("type_interface", GoName(file[i]) \o "Client")
              /\ Declares("type_struct", serviceType(file[i]))
              /\ Declares("type_interface", "Unstable" \o serviceType(file[i]))

\* A migration-mode pass over a file with a streaming method, whose full-mode
\* output has client lines and stream wrapper types.
C2_Witness ==
    /\ Done /\ migrationMode
    /\ \E p \in AllMethods : p[2].ClientStreaming \/ p[2].ServerStreaming
    /\ Len(ServerPart(g)) > 0
    /\ Len(generateFileContent(FALSE, file)) > Len(g)

\* The indices of the sink, in order.
IdxSeq == [i \in Idx |-> i]

\* The end of the registration entry opened at line i.
EntryEnd(i) ==
    CHOOSE j \in i..Len(g) :
        g[j].k = "entry_close" /\ \A k \in i..(j - 1) : g[k].k # "entry_close"

\* The text of field name of the entry opened at line i, "" without it.
EntryField(i, name) ==
    LET at == {j \in i..EntryEnd(i) : g[j].k = "field" /\ g[j].n = name}
    IN IF at = {} THEN "" ELSE g[CHOOSE j \in at : TRUE].a

\* The entries of list (Methods or Streams) of registration function f.
Entries(f, list, nameField) ==
    LET opens == SelectSeq(IdxSeq, LAMBDA i :
                     g[i].k = "entry_open" /\ g[i].o = f /\ g[i].n = list)
    IN [e \in 1..Len(opens) |->
           [name |-> EntryField(opens[e], nameField),
            handler |-> EntryField(opens[e], "Handler"),
            ServerStreams |-> EntryField(opens[e], "ServerStreams") = "true",
            ClientStreams |-> EntryField(opens[e], "ClientStreams") = "true"]]

\* The emitted function named h of the service struct calls field M.
AdapterCalls(sv, h, M) ==
    /\ \E i \in Idx : g[i].k = "func" /\ g[i].a = serviceType(sv) /\ g[i].n = h
    /\ \E i \in Idx : /\ g[i].k = "stmt" /\ g[i].o = FuncKey(serviceType(sv), h)
                      /\ g[i].n = "if_field_nil" /\ g[i].a = M
    /\ \A i \in Idx : (/\ g[i].k = "stmt" /\ g[i].o = FuncKey(serviceType(sv), h)
                       /\ g[i].n \in {"return_call", "if_interceptor_nil_return_call"}
                       /\ g[i].a = "handler") => g[i].args[1] = M

\* C3: the registration descriptor of a service partitions its methods: the
\* Methods list holds exactly the methods with neither streaming flag and
\* the Streams list the others, each list in declaration order; a Streams
\* entry has ServerStreams iff the method is server-streaming and
\* ClientStreams iff it is client-streaming; the handler of an entry is the
\* adapter function of that method.
C3_Registration ==
    Done =>
        \A i \in 1..Len(file) :
            LET sv == file[i]
                f == "Register" \o GoName(sv) \o "Service"
                unary == SelectSeq(sv.Methods, LAMBDA m :
                             ~m.ClientStreaming /\ ~m.ServerStreaming)
                streams == SelectSeq(sv.Methods, LAMBDA m :
                               m.ClientStreaming \/ m.ServerStreaming)
                me == Entries(f, "Methods", "MethodName")
                se == Entries(f, "Streams", "StreamName")
            IN /\ Len(me) = Len(unary)
               /\ Len(se) = Len(streams)
               /\ \A j \in 1..Len(unary) :
                     /\ me[j].name = DescName(unary[j])
                     /\ AdapterCalls(sv, me[j].handler, GoName(unary[j]))
                     /\ ~me[j].ServerStreams /\ ~me[j].ClientStreams
               /\ \A j \in 1..Len(streams) :
                     /\ se[j].name = DescName(streams[j])
                     /\ AdapterCalls(sv, se[j].handler, GoName(streams[j]))
                     /\ se[j].ServerStreams = streams[j].ServerStreaming
                     /\ se[j].ClientStreams = streams[j].ClientStreaming

\* A finished pass over a service with a unary and a streaming method.
C3_Witness ==
    /\ Done
    /\ \E i \in 1..Len(file) :
          LET f == "Register" \o GoName(file[i]) \o "Service" IN
          /\ Len(Entries(f, "Methods", "MethodName")) = 1
          /\ Len(Entries(f, "Streams", "StreamName")) = 1
          /\ Entries(f, "Streams", "StreamName")[1].ServerStreams

\* The line that declares name with a line of kind k; 0 when there is none.
Pos(k, name) ==
    LET at == {i \in Idx : g[i].k = k /\ g[i].n = name} IN
    IF at = {} THEN 0 ELSE CHOOSE i \in at : \A j \in at : i <= j

\* The place of a part in the output of one service.
Rank(art) ==
    CASE art = "client_interface" -> 1
      [] art = "client_struct" -> 2
      [] art = "client_constructor" -> 3
      [] art \in {"client_stream_desc", "client_method", "client_stream_type"} -> 4
      [] art = "server_struct" -> 5
      [] art = "adapter" -> 6
      [] art = "server_stream_type" -> 7
      [] art = "registration" -> 8
      [] art = "constructor_helper" -> 9
      [] art = "unstable_interface" -> 10
      [] OTHER -> 0

\* The index in the file of the service a line was written for; 0: preamble.
ServiceIndex(l) ==
    IF l.svc = "" THEN 0
    ELSE CHOOSE i \in 1..Len(file) : GoName(file[i]) = l.svc

\* C4 as stated: in the output of one service the unstable interface
\* comes before the registration function, which comes before the
\* constructor helper.
C4_AsStated ==
    Done =>
        \A i \in 1..Len(file) :
            LET sv == file[i]
                unstable == Pos("type_interface", "Unstable" \o serviceType(sv))
                register == Pos("func", "Register" \o GoName(sv) \o "Service")
                construct == Pos("func", "New" \o GoName(sv) \o "Service")
            IN unstable < register /\ register < construct

\* C4, amended: the parts of one service are written in the order client,
\* server struct, adapters, server stream types, registration function,
\* constructor helper, unstable interface, so the registration function
\* comes before the constructor helper and the unstable interface comes
\* last; services are written in declaration order, all of one service
\* before the next.
C4_Order ==
    Done =>
       /\ \A i \in Idx \ {Len(g)} :
             IF g[i].svc = g[i + 1].svc
             THEN Rank(g[i].art) <= Rank(g[i + 1].art)
             ELSE ServiceIndex(g[i]) < ServiceIndex(g[i + 1])
       /\ \A i \in 1..Len(file) :
              LET sv == file[i]
                  struct == Pos("type_struct", serviceType(sv))
                  unstable == Pos("type_interface", "Unstable" \o serviceType(sv))
                  register == Pos("func", "Register" \o GoName(sv) \o "Service")
                  construct == Pos("func", "New" \o GoName(sv) \o "Service")
                  client == Pos("type_interface", GoName(sv) \o "Client")
              IN /\ 0 < struct /\ struct < register
                 /\ register < construct /\ construct < unstable
                 /\ ~migrationMode => (0 < client /\ client < struct)
                 /\ i < Len(file) =>
                       unstable < Pos("type_struct", serviceType(file[i + 1]))

\* A finished pass over two services that both have a method.
C4_Witness ==
    /\ Done
    /\ Len(file) = 2
    /\ Len(file[1].Methods) = 1 /\ Len(file[2].Methods) = 1
    /\ Pos("func", "Register" \o GoName(file[2]) \o "Service") > 0

\* The lines of container type (an interface or the server struct) that
\* hold the entry of the method with Go name M.
EntryLines(container, M) ==
    {i \in Idx : /\ g[i].k \in {"iface_method", "field_func"}
                 /\ g[i].o = container /\ g[i].n = M}

\* The entry at line i has the deprecation notice attached: the line before
\* it is the notice, written inside the same declaration.
HasNotice(i) ==
    /\ i > 1
    /\ g[i - 1].k = "comment"
    /\ g[i - 1].o = g[i].o
    /\ g[i - 1].a = "// Deprecated: Do not use."

\* The text of the comment before the entry at line i, "" without one.
NoticeText(i) == IF i > 1 /\ g[i - 1].k = "comment" THEN g[i - 1].a ELSE ""

\* The same method without its deprecated option.
Undeprecated(m) == [m EXCEPT !.Deprecated = FALSE]

\* C7: a deprecated method has the deprecation notice attached to its entry
\* in the client interface (emitted in full mode), in the server struct and
\* in the unstable interface, with the same wording in each place, and each
\* of the three signatures is the one emitted for the method when it is not
\* deprecated; a method that is not deprecated has no notice in any of the
\* places.
C7_Deprecation ==
    Done =>
        \A p \in AllMethods :
            LET sv == p[1]
                m == p[2]
                ce == EntryLines(GoName(sv) \o "Client", GoName(m))
                fe == EntryLines(serviceType(sv), GoName(m))
                ue == EntryLines("Unstable" \o serviceType(sv), GoName(m))
                plain == Undeprecated(m)
            IN /\ Cardinality(fe) = 1 /\ Cardinality(ue) = 1
               /\ Cardinality(ce) = IF migrationMode THEN 0 ELSE 1
               /\ \A i \in ce \cup fe \cup ue : HasNotice(i) = m.Deprecated
               /\ \A i, j \in ce \cup fe \cup ue :
                     m.Deprecated => NoticeText(i) = NoticeText(j)
               /\ \A i \in ce :
                     /\ g[i].args = clientSignature(sv, plain).args
                     /\ g[i].rets = clientSignature(sv, plain).rets
               /\ \A i \in fe :
                     /\ g[i].args = handlerSignature(sv, plain).args
                     /\ g[i].rets = handlerSignature(sv, plain).rets
               /\ \A i \in ue :
                     /\ g[i].args = methodSignature(sv, plain).args
                     /\ g[i].rets = methodSignature(sv, plain).rets

\* A finished full-mode pass over a service with a deprecated method beside
\* one that is not deprecated, the notice being in the three places.
C7_Witness ==
    /\ Done /\ ~migrationMode
    /\ \E p, q \in AllMethods :
          /\ p[1] = q[1] /\ p[2].Deprecated /\ ~q[2].Deprecated
          /\ \E i \in EntryLines(GoName(p[1]) \o "Client", GoName(p[2])) : HasNotice(i)
          /\ \E i \in EntryLines(serviceType(p[1]), GoName(p[2])) : HasNotice(i)
          /\ \E i \in EntryLines("Unstable" \o serviceType(p[1]), GoName(p[2])) :
                HasNotice(i)

\* The method paths the emitted client of a unary method gives to Invoke.
ClientPaths(sv, m) ==
    {g[i].args[1] : i \in {j \in Idx :
        /\ g[j].k = "stmt" /\ g[j].n = "call" /\ g[j].a = "Invoke"
        /\ g[j].o = FuncKey(clientImplType(sv), GoName(m))}}

\* The FullMethod strings the adapter of a unary method gives the interceptor.
ServerFullMethods(sv, m) ==
    {g[i].args[1] : i \in {j \in Idx :
        /\ g[j].k = "stmt" /\ g[j].n = "info_field" /\ g[j].a = "FullMethod"
        /\ AdapterCalls(sv, FuncLine(g[j].o).n, GoName(m))
        /\ g[j].o = FuncKey(serviceType(sv), FuncLine(g[j].o).n)}}

\* C9: for every unary method the method path the emitted client passes to
\* the unary call primitive is the FullMethod string the emitted adapter
\* puts in the interceptor metadata, whatever the declared name.
C9_SamePath ==
    (Done /\ ~migrationMode) =>
        \A p \in AllMethods :
            (~p[2].ClientStreaming /\ ~p[2].ServerStreaming) =>
                /\ Cardinality(ClientPaths(p[1], p[2])) = 1
                /\ ClientPaths(p[1], p[2]) = ServerFullMethods(p[1], p[2])

\* The names of the stream wrapper types of the file's methods.
WrapperNames ==
    UNION {{serverStreamIface(p[1], p[2]), serverStreamType(p[1], p[2]),
            clientStreamIface(p[1], p[2]), clientStreamType(p[1], p[2])} :
           p \in AllMethods}

Range(q) == {q[i] : i \in 1..Len(q)}

\* The stream wrapper types a line of a server part refers to: in a
\* signature, or as the struct an adapter instantiates.
ServerRefs ==
    LET names == WrapperNames IN
    {x \in names : \E i \in Idx :
        /\ g[i].art \in ServerArts
        /\ x \in Range(g[i].args) \cup Range(g[i].rets)}

\* The types the output declares.
DeclaredTypes ==
    {g[i].n : i \in {j \in Idx : g[j].k \in {"type_interface", "type_struct"}}}

\* C10 as stated: in both modes every stream wrapper type a server part of
\* the output refers to is declared in the output.
C10_AsStated == Done => ServerRefs \subseteq DeclaredTypes

\* C10, amended: in full mode every stream wrapper type a server part of
\* the output refers to (the interface in the handler field and in the
\* unstable interface, the struct the adapter instantiates) is declared in
\* the output, for every non-unary method.
C10_FullModeDeclared ==
    (Done /\ ~migrationMode) =>
        LET refs == ServerRefs IN
        /\ refs \subseteq DeclaredTypes
        /\ \A p \in AllMethods :
              (p[2].ClientStreaming \/ p[2].ServerStreaming) =>
                  /\ serverStreamIface(p[1], p[2]) \in refs
                  /\ serverStreamType(p[1], p[2]) \in refs

\* A finished full-mode pass whose server parts refer to wrapper types.
C10_Witness ==
    /\ Done /\ ~migrationMode
    /\ ServerRefs # {}
    /\ \E p \in AllMethods : p[2].ClientStreaming /\ ~p[2].ServerStreaming

(***************************************************************************)
(* Properties of the runs of emitted functions (SpecRun).                  *)
(***************************************************************************)
\* The method whose adapter function f is.
AdapterMethods(f) ==
    {p \in AllMethods : f = FuncKey(serviceType(p[1]), adapterName(p[2]))}

IsAdapter(f) == f # "" /\ FuncLine(f).art = "adapter"

\* C5: an adapter invoked while its method's handler field is nil calls
\* nothing (not the decode callback, not the stream, not the interceptor, no
\* handler) and returns the Unimplemented error whose message names that
\* method, with a nil result where it has one, for every shape.
C5_Unimplemented ==
    (IsAdapter(fn) /\ env.handlerNil) =>
        /\ trace = <<>>
        /\ ip <= 2
        /\ Cardinality(AdapterMethods(fn)) = 1
        /\ ret.done =>
              \A p \in AdapterMethods(fn) :
                  /\ ret.err = "Unimplemented: method " \o GoName(p[2])
                                   \o " not implemented"
                  /\ ret.val = NilResult(fn)
        /\ (~ret.done) => ip <= Len(Body(fn))

\* The adapter of a streaming method has returned Unimplemented on a nil field.
C5_Witness ==
    /\ IsAdapter(fn) /\ env.handlerNil /\ ret.done
    /\ \E p \in AdapterMethods(fn) : p[2].ServerStreaming /\ ~p[2].ClientStreaming
    /\ ret.err = "Unimplemented: method AB not implemented"

\* The collaborator primitives.
Primitives == {"Invoke", "NewStream", "SendMsg", "CloseSend", "RecvMsg", "dec"}

\* C6: when a collaborator primitive fails, the emitted function makes no
\* later call (to a primitive, the handler or the interceptor) and returns
\* that same error, with a nil result where it has a result: it never
\* returns success or a stream wrapper after a failed call.
C6_ErrorsPropagate ==
    \A i \in 1..Len(trace) :
        (trace[i].prim \in Primitives /\ ~trace[i].ok) =>
            /\ i = Len(trace)
            /\ ret.done => (ret.err = ErrOf(trace[i].prim) /\ ret.val = NilResult(fn))
            /\ (~ret.done) =>
                  /\ ip <= Len(Body(fn))
                  /\ Body(fn)[ip].n = "if_err_return_nil_err"
                  /\ err = ErrOf(trace[i].prim)

\* The streaming call of a server-streaming method has returned the error
\* of closing the send side, after the stream was opened and the request
\* sent.
C6_Witness ==
    /\ ret.done
    /\ Len(trace) = 3
    /\ trace[1].prim = "NewStream" /\ trace[1].ok
    /\ trace[2].prim = "SendMsg" /\ trace[2].ok
    /\ trace[3].prim = "CloseSend" /\ ~trace[3].ok
    /\ ret.err = "error of CloseSend" /\ ret.val = "nil"

(***************************************************************************)
(* Properties of unexport (SpecNaming).                                    *)
(***************************************************************************)
\* The identifier with its first byte upper-cased.
Export(id) == <<ToUpperByte(id[1])>> \o SubSeq(id, 2, Len(id))

\* unexport(x) = y: y is x with only its first byte lower-cased.
FirstLowered(x, y) ==
    /\ Len(y) = Len(x)
    /\ y[1] = ToLowerByte(x[1])
    /\ \A i \in 2..Len(x) : y[i] = x[i]

\* C8 as stated: unexport lower-cases the first character only, and for
\* every identifier that starts with an ASCII letter upper-casing the first
\* character of the result gives the identifier back, so that unexport is
\* injective on those identifiers.
C8_AsStated ==
    (r # <<>>) =>
        /\ \A k \in 1..2 : FirstLowered(s[k], r[k])
        /\ \A k \in 1..2 : s[k][1] \in LetterChars => Export(r[k]) = s[k]
        /\ (s[1][1] \in LetterChars /\ s[2][1] \in LetterChars /\ r[1] = r[2])
              => s[1] = s[2]

\* C8, amended: unexport(s) is s with only its first character lower-cased,
\* and for every identifier that starts with an upper-case ASCII letter
\* upper-casing the first character of the result gives the identifier
\* back, so that unexport is injective on those identifiers.
C8_Naming ==
    (r # <<>>) =>
        /\ \A k \in 1..2 : FirstLowered(s[k], r[k])
        /\ \A k \in 1..2 : s[k][1] \in UpperChars => Export(r[k]) = s[k]
        /\ (s[1][1] \in UpperChars /\ s[2][1] \in UpperChars /\ r[1] = r[2])
              => s[1] = s[2]

\* unexport has been applied to an exported identifier with an upper-case
\* letter after the first.
C8_Witness ==
    /\ r # <<>>
    /\ s[1] = <<"A", "B">>
    /\ r[1] = <<"a", "B">>

====
